---- MODULE Spec2Model ----
(***************************************************************************)
(* A model of django_webdav's method engine (src/django_webdav/__init__.py)*)
(* over a file-system tree.  The state is the exported tree; every action  *)
(* is one request handled from start to end (one request per worker).      *)
(* Paths are sequences of segment names; the root of the export is <<>>.   *)
(***************************************************************************)
EXTENDS Integers, Sequences, FiniteSets, TLC

\* ------------------------------------------------------------------ bounds
Names == {"a", "b"}
MaxDepth == 2
MaxNodes == 3
MaxTime == 2
MaxLen == 3
Contents == {"", "x"}

Paths == UNION {[1..n -> Names] : n \in 0..MaxDepth}
Root == <<>>
Orders == {s \in [1..Cardinality(Names) -> Names] : \A n \in Names : \E i \in DOMAIN s : s[i] = n}

\* Path texts, character by character: a separator, a letter and a dot
Chars == {"/", "a", "."}
Strings == UNION {[1..n -> Chars] : n \in 0..MaxLen}

\* ---------------------------------------------------------- path utilities
startswith(s, c) == s # <<>> /\ s[1] = c
endswith(s, c) == s # <<>> /\ s[Len(s)] = c
\* while s.endswith('/'): s = s[:-1]
RECURSIVE strip_trailing(_)
strip_trailing(s) ==
    IF endswith(s, "/") THEN strip_trailing(SubSeq(s, 1, Len(s) - 1)) ELSE s
\* while s.startswith('/'): s = s[1:]
RECURSIVE strip_leading(_)
strip_leading(s) == IF startswith(s, "/") THEN strip_leading(Tail(s)) ELSE s

\* the loop of safe_join over its paths
RECURSIVE join_each(_, _)
join_each(root, paths) ==
    IF paths = <<>> THEN root
    ELSE join_each(strip_trailing(root) \o <<"/">> \o strip_leading(Head(paths)),
                   Tail(paths))
safe_join(root, paths) ==
    join_each(IF ~startswith(root, "/") THEN <<"/">> \o root ELSE root, paths)

\* DavResource.__init__ drops the trailing separators of the path;
\* get_abs_path joins the root and the path
get_abs_path(root, path) == safe_join(root, <<strip_trailing(path)>>)
\* doCOPY: the destination's path is the URL path without as many
\* characters as the base has
destination_path(url_path, base) == SubSeq(url_path, Len(base) + 1, Len(url_path))

\* The directory a path text names for the file system: its segments, with
\* empty and "." segments dropped and ".." stepping up (never above "/")
RECURSIVE resolve(_, _, _)
resolve(s, seg, dirs) ==
    LET up == IF dirs = <<>> THEN dirs ELSE SubSeq(dirs, 1, Len(dirs) - 1)
        closed == IF seg = <<>> \/ seg = <<".">> THEN dirs
                  ELSE IF seg = <<".", ".">> THEN up
                  ELSE Append(dirs, seg)
    IN IF s = <<>> THEN closed
       ELSE IF Head(s) = "/" THEN resolve(Tail(s), <<>>, closed)
       ELSE resolve(Tail(s), Append(seg, Head(s)), dirs)
realpath(s) == resolve(s, <<>>, <<>>)

\* ------------------------------------------------------------- tree nodes
\* mtime is the node's st_mtime, in ticks of the clock; a backend call
\* leaves 0 in the nodes it writes and the request's end stamps them
Absent == [kind |-> "absent", data |-> "", mtime |-> 0]
Dir == [kind |-> "dir", data |-> "", mtime |-> 0]
File(c) == [kind |-> "file", data |-> c, mtime |-> 0]

InTree(p) == Len(p) <= MaxDepth
kind(f, p) == IF InTree(p) THEN f[p].kind ELSE "absent"

\* The outcome of a backend call: the tree it leaves, whether it returned
\* (ok) or raised, and whether it raised only because the path is deeper
\* than the model's tree (deep), and whether it raised while a child of the
\* copied or moved collection was being handled (child).
Ok(f) == [fs |-> f, ok |-> TRUE, deep |-> FALSE, child |-> FALSE]
Fail(f) == [fs |-> f, ok |-> FALSE, deep |-> FALSE, child |-> FALSE]
TooDeep(f) == [fs |-> f, ok |-> FALSE, deep |-> TRUE, child |-> FALSE]

\* ---------------------------------------------------------- DavResource
isdir(f, p) == kind(f, p) = "dir"
isfile(f, p) == kind(f, p) = "file"
exists(f, p) == kind(f, p) # "absent"

\* os.path.dirname(self.path): the parent of the root is the root.
get_parent(p) == IF p = Root THEN Root ELSE SubSeq(p, 1, Len(p) - 1)
\* os.path.basename(self.path)
get_name(p) == IF p = Root THEN "" ELSE p[Len(p)]
\* safe_join(path, name) for one segment name
child_path(p, n) == Append(p, n)

\* os.listdir snapshot of a directory, in the backend's order
get_children(f, p, order) ==
    IF Len(p) >= MaxDepth THEN <<>>
    ELSE LET present(n) == f[child_path(p, n)].kind # "absent"
             names == SelectSeq(order, present)
         IN [i \in 1..Len(names) |-> child_path(p, names[i])]

\* What a walk has yielded, and whether it ended (ok) or raised
Walked(seq) == [seq |-> seq, ok |-> TRUE]
Broken(seq) == [seq |-> seq, ok |-> FALSE]

\* get_descendants(depth, include_self=True): yields self, then, unless
\* depth is 0, walks every child with depth - 1.  get_children lists the
\* path with os.listdir, which raises on a path that is no directory.
RECURSIVE get_descendants(_, _, _, _)
RECURSIVE descendantsEach(_, _, _, _)
get_descendants(f, p, depth, order) ==
    IF depth = 0 THEN Walked(<<p>>)
    ELSE IF ~isdir(f, p) THEN Broken(<<p>>)
    ELSE LET w == descendantsEach(f, get_children(f, p, order), depth - 1, order)
         IN [w EXCEPT !.seq = <<p>> \o w.seq]
descendantsEach(f, cs, depth, order) ==
    IF cs = <<>> THEN Walked(<<>>)
    ELSE LET w == get_descendants(f, Head(cs), depth, order)
         IN IF ~w.ok THEN w
            ELSE LET rest == descendantsEach(f, Tail(cs), depth, order)
                 IN [rest EXCEPT !.seq = w.seq \o rest.seq]

\* os.path.getsize: the length of a file's content; a directory has the
\* size of its directory entry
get_size(f, p) == IF isdir(f, p) THEN 4096 ELSE Len(f[p].data)

\* os.mkdir that would create a directory under any parent
mkdir_any_parent(f, p) ==
    IF ~InTree(p) THEN (IF isdir(f, get_parent(p)) THEN TooDeep(f) ELSE Fail(f))
    ELSE IF exists(f, p) THEN Fail(f)
    ELSE Ok([f EXCEPT ![p] = Dir])

\* os.mkdir: raises when the path exists or its parent is no directory
mkdir(f, p) ==
    IF ~InTree(p) THEN (IF isdir(f, get_parent(p)) THEN TooDeep(f) ELSE Fail(f))
    ELSE IF exists(f, p) THEN Fail(f)
    ELSE IF p # Root /\ ~isdir(f, get_parent(p)) THEN Fail(f)
    ELSE Ok([f EXCEPT ![p] = Dir])

\* file(abs_path, 'w'): creates or truncates; raises on a directory, under
\* a parent that is no directory, and on the root (its abs_path ends in '/')
open_w(f, p) ==
    IF p = Root THEN Fail(f)
    ELSE IF ~InTree(p) THEN (IF isdir(f, get_parent(p)) THEN TooDeep(f) ELSE Fail(f))
    ELSE IF isdir(f, p) THEN Fail(f)
    ELSE IF ~isdir(f, get_parent(p)) THEN Fail(f)
    ELSE Ok([f EXCEPT ![p] = File("")])

\* os.rename of a non-directory
rename(f, s, d) ==
    IF ~exists(f, s) THEN Fail(f)
    ELSE IF d = Root THEN Fail(f)
    ELSE IF ~InTree(d) THEN (IF isdir(f, get_parent(d)) THEN TooDeep(f) ELSE Fail(f))
    ELSE IF ~isdir(f, get_parent(d)) THEN Fail(f)
    ELSE IF isdir(f, d) THEN Fail(f)
    ELSE IF s = d THEN Ok(f)
    ELSE Ok([f EXCEPT ![d] = f[s], ![s] = Absent])

\* delete without the walk over the children: only the node itself goes
delete_shallow(f, p, order) ==
    IF exists(f, p) THEN [f EXCEPT ![p] = Absent] ELSE f

RECURSIVE delete(_, _, _)
RECURSIVE deleteEach(_, _, _)
\* DavResource.delete: children first, then os.rmdir; os.remove for a file
delete(f, p, order) ==
    IF isdir(f, p)
    THEN LET g == deleteEach(f, get_children(f, p, order), order)
         IN [g EXCEPT ![p] = Absent]
    ELSE IF isfile(f, p) THEN [f EXCEPT ![p] = Absent]
    ELSE f
deleteEach(f, cs, order) ==
    IF cs = <<>> THEN f
    ELSE deleteEach(delete(f, Head(cs), order), Tail(cs), order)

RECURSIVE copy(_, _, _, _, _)
RECURSIVE copyEach(_, _, _, _, _)
\* DavResource.copy
copy(f, src, dst, depth, order) ==
    IF isdir(f, src)
    THEN LET f1 == IF isfile(f, dst) THEN delete(f, dst, order) ELSE f
             m == IF ~isdir(f1, dst) THEN mkdir(f1, dst) ELSE Ok(f1)
         IN IF ~m.ok THEN m
            ELSE IF depth # 0
                 THEN copyEach(m.fs, get_children(m.fs, src, order), dst, depth - 1, order)
                 ELSE m
    ELSE LET f1 == IF isdir(f, dst) THEN delete(f, dst, order) ELSE f
             w == open_w(f1, dst)
         IN IF ~w.ok THEN w
            ELSE IF ~isfile(w.fs, src) THEN Fail(w.fs)
            ELSE Ok([w.fs EXCEPT ![dst] = File(w.fs[src].data)])
copyEach(f, cs, dst, depth, order) ==
    IF cs = <<>> THEN Ok(f)
    ELSE LET r == copy(f, Head(cs), child_path(dst, get_name(Head(cs))), depth, order)
         IN IF ~r.ok THEN [r EXCEPT !.child = TRUE]
            ELSE copyEach(r.fs, Tail(cs), dst, depth, order)

RECURSIVE move(_, _, _, _)
RECURSIVE moveEach(_, _, _, _)
\* DavResource.move
move(f, src, dst, order) ==
    LET f1 == IF exists(f, dst) THEN delete(f, dst, order) ELSE f
    IN IF isdir(f1, src)
       THEN LET m == mkdir(f1, dst)
            IN IF ~m.ok THEN m
               ELSE LET r == moveEach(m.fs, get_children(m.fs, src, order), dst, order)
                    IN IF ~r.ok THEN r ELSE Ok(delete(r.fs, src, order))
       ELSE rename(f1, src, dst)
moveEach(f, cs, dst, order) ==
    IF cs = <<>> THEN Ok(f)
    ELSE LET r == move(f, Head(cs), child_path(dst, get_name(Head(cs))), order)
         IN IF ~r.ok THEN [r EXCEPT !.child = TRUE]
            ELSE moveEach(r.fs, Tail(cs), dst, order)

\* ---------------------------------------------------------------- DavAcl
Perms == {"read", "write", "delete", "create", "relocate", "list"}
\* DavAcl.__init__: `all` is {} for None and {b} for the boolean b.  The six
\* keyword values are assigned after the `all` branch, as in the source.
DavAcl(read, write, del, create, relocate, list, all) ==
    LET a0 == IF all # {}
              THEN [k \in Perms |-> CHOOSE b \in all : TRUE]
              ELSE [k \in Perms |-> FALSE]
        a1 == [a0 EXCEPT !["read"] = read]
        a2 == [a1 EXCEPT !["write"] = write]
        a3 == [a2 EXCEPT !["delete"] = del]
        a4 == [a3 EXCEPT !["create"] = create]
        a5 == [a4 EXCEPT !["relocate"] = relocate]
    IN [a5 EXCEPT !["list"] = list]

\* DavServer.get_access: acl_class(list=True, read=True, all=False); the
\* other four keywords take the defaults of DavAcl.__init__ (True).
get_access == DavAcl(TRUE, TRUE, TRUE, TRUE, TRUE, TRUE, {FALSE})

\* ACLs of an integrator's get_access override: a read-only one and a full one
ReadOnlyAcl == DavAcl(TRUE, FALSE, FALSE, FALSE, FALSE, TRUE, {})
FullAcl == DavAcl(TRUE, TRUE, TRUE, TRUE, TRUE, TRUE, {})
Acls == {get_access, ReadOnlyAcl, FullAcl}
\* ACLs that deny one of the two reading permissions
NoListAcl == DavAcl(TRUE, TRUE, TRUE, TRUE, TRUE, FALSE, {})
NoReadAcl == DavAcl(FALSE, TRUE, TRUE, TRUE, TRUE, TRUE, {})

\* ----------------------------------------------------------- DavProperty
\* A property name in Clark notation: "{" ns "}" local, or local alone
\* (braced FALSE).  ns is the namespace text, character by character.
Tag(ns, local) == [braced |-> TRUE, ns |-> ns, local |-> local]
Bare(local) == [braced |-> FALSE, ns |-> <<>>, local |-> local]
DavNs == <<"D", "A", "V", ":">>
DavTag(local) == Tag(DavNs, local)

DAV_LIVE_PROPERTIES ==
    <<DavTag("getetag"), DavTag("getcontentlength"), DavTag("creationdate"),
      DavTag("getlastmodified"), DavTag("resourcetype"), DavTag("displayname")>>

\* ns_split: ns[1:-1] of the text before "}" drops the "{" and the last
\* character of the namespace
ns_split(tag) ==
    IF tag.braced
    THEN [ns |-> SubSeq(tag.ns, 1, Len(tag.ns) - 1), name |-> tag.local]
    ELSE [ns |-> <<>>, name |-> tag.local]

\* Property values: None, an element, or a text computed by `fn` from the
\* resource (its path, a name or a number)
None == [kind |-> "none", fn |-> "", text |-> "", path |-> Root, n |-> 0, m |-> 0]
Element(tag) == [kind |-> "element", fn |-> "", text |-> tag, path |-> Root, n |-> 0, m |-> 0]
Text(fn, text, path, n) ==
    [kind |-> "text", fn |-> fn, text |-> text, path |-> path, n |-> n, m |-> 0]
\* a string literal; Str("") is the empty string
Str(text) == Text("", text, Root, 0)

\* str(st_mtime): the text of a float keeps 12 significant digits, which is
\* coarser than the clock; two ticks of the clock share one text
str_mtime(t) == t \div 2
\* get_etag: md5 over the absolute path, the text of the modification time
\* and the text of the size
get_etag(f, p) == [Text("md5", "", p, get_size(f, p)) EXCEPT !.m = str_mtime(f[p].mtime)]
\* get_url: url_join(base url, path)
get_url(p) == Text("url_join", "", p, 0)

\* the value get_properties computes for one name of the DAV namespace
live_value(f, p, bare_name) ==
    IF bare_name = "getetag" THEN get_etag(f, p)
    ELSE IF bare_name = "getcontentlength" THEN Text("str", "", Root, get_size(f, p))
    ELSE IF bare_name = "creationdate" THEN Text("rfc3339_date", "ctime", p, 0)
    ELSE IF bare_name = "getlastmodified" THEN Text("http_date", "mtime", p, 0)
    ELSE IF bare_name = "resourcetype"
         THEN (IF isdir(f, p) THEN Element("collection") ELSE Str(""))
    ELSE IF bare_name = "displayname" THEN Str(get_name(p))
    ELSE IF bare_name = "href" THEN get_url(p)
    ELSE None

InSeq(x, seq) == \E i \in DOMAIN seq : seq[i] = x

\* get_properties(res, *names, names_only): the found (name, value) pairs
\* and the missing names, each in the order of names
RECURSIVE get_properties(_, _, _, _)
get_properties(f, p, names, names_only) ==
    IF names = <<>> THEN [found |-> <<>>, missing |-> <<>>]
    ELSE LET name == Head(names)
             rest == get_properties(f, p, Tail(names), names_only)
             split == ns_split(name)
             value == IF split.ns # <<"D", "A", "V">> THEN None
                      ELSE live_value(f, p, split.name)
         IN IF names_only
            THEN (IF InSeq(name, DAV_LIVE_PROPERTIES)
                  THEN [rest EXCEPT !.found = <<[name |-> name, value |-> None]>> \o @]
                  ELSE rest)
            ELSE IF value = None
                 THEN [rest EXCEPT !.missing = <<name>> \o @]
                 ELSE [rest EXCEPT !.found = <<[name |-> name, value |-> value]>> \o @]

\* --------------------------------------------------------- HTTP responses
\* ms is the body of a multistatus response: its response elements in order
Response(status, hdrs) ==
    [status |-> status, raised |-> FALSE, hdrs |-> hdrs, ms |-> <<>>]
\* an exception leaves the handler: no response object is returned
Raised == [status |-> 0, raised |-> TRUE, hdrs |-> {}, ms |-> <<>>]
\* What a handler leaves behind: the tree, the response and the calls it
\* made to the ACL provider and to the backend's mutating operations, in
\* program order.  Out is a return before any such call.
OutAfter(f, resp, calls) == [fs |-> f, resp |-> resp, calls |-> calls]
Out(f, resp) == OutAfter(f, resp, <<>>)

\* ----------------------------------------------------------------- requests
\* path is the resource the URL tail resolves to; raw is the tail's text
\* where a handler compares the text itself ("/" or "*"), else "".
Request(method, path, acl) ==
    [method |-> method, path |-> path, acl |-> acl, body |-> "", clen |-> 0,
     has_dest |-> FALSE, same_host |-> TRUE, dest |-> Root,
     overwrite |-> "T", depth |-> "infinity", xml |-> <<>>, raw |-> ""]

\* ------------------------------------------------------------- DavServer
\* doPUT with `created` computed after the body was written
doPUT_created_late(f, r) ==
    IF isdir(f, r.path) THEN Out(f, Response(405, {}))
    ELSE IF ~exists(f, get_parent(r.path)) THEN Out(f, Response(404, {}))
    ELSE IF ~r.acl["write"] THEN OutAfter(f, Response(403, {}), <<"access">>)
    ELSE LET w == open_w(f, r.path)
             created == ~exists(w.fs, r.path)
         IN IF ~w.ok THEN OutAfter(w.fs, Raised, <<"access", "write">>)
            ELSE OutAfter([w.fs EXCEPT ![r.path] = File(r.body)],
                          IF created THEN Response(201, {}) ELSE Response(204, {}),
                          <<"access", "write">>)

\* doPUT writing the body before it asks the ACL provider
doPUT_write_first(f, r) ==
    IF isdir(f, r.path) THEN Out(f, Response(405, {}))
    ELSE IF ~exists(f, get_parent(r.path)) THEN Out(f, Response(404, {}))
    ELSE LET created == ~exists(f, r.path)
             w == open_w(f, r.path)
         IN IF ~w.ok THEN OutAfter(w.fs, Raised, <<"write">>)
            ELSE IF ~r.acl["write"]
            THEN OutAfter([w.fs EXCEPT ![r.path] = File(r.body)], Response(403, {}),
                          <<"write", "access">>)
            ELSE OutAfter([w.fs EXCEPT ![r.path] = File(r.body)],
                          IF created THEN Response(201, {}) ELSE Response(204, {}),
                          <<"write", "access">>)

doPUT(f, r) ==
    IF isdir(f, r.path) THEN Out(f, Response(405, {}))
    ELSE IF ~exists(f, get_parent(r.path)) THEN Out(f, Response(404, {}))
    ELSE IF ~r.acl["write"] THEN OutAfter(f, Response(403, {}), <<"access">>)
    ELSE LET created == ~exists(f, r.path)
             w == open_w(f, r.path)
         IN IF ~w.ok THEN OutAfter(w.fs, Raised, <<"access", "write">>)
            ELSE OutAfter([w.fs EXCEPT ![r.path] = File(r.body)],
                          IF created THEN Response(201, {}) ELSE Response(204, {}),
                          <<"access", "write">>)

doDELETE(f, r, order) ==
    IF ~exists(f, r.path) THEN Out(f, Response(404, {}))
    ELSE IF ~r.acl["delete"] THEN OutAfter(f, Response(403, {}), <<"access">>)
    ELSE OutAfter(delete(f, r.path, order), Response(204, {"Date"}),
                  <<"access", "delete">>)

\* doMKCOL with the Content-Length check ahead of the existence checks
doMKCOL_length_first(f, r) ==
    IF r.clen # 0 THEN Out(f, Response(415, {}))
    ELSE IF exists(f, r.path) THEN Out(f, Response(405, {}))
    ELSE IF ~exists(f, get_parent(r.path)) THEN Out(f, Response(409, {}))
    ELSE IF ~r.acl["create"] THEN OutAfter(f, Response(403, {}), <<"access">>)
    ELSE LET m == mkdir(f, r.path)
         IN IF ~m.ok THEN OutAfter(m.fs, Raised, <<"access", "mkdir">>)
            ELSE OutAfter(m.fs, Response(201, {}), <<"access", "mkdir">>)

doMKCOL(f, r) ==
    IF exists(f, r.path) THEN Out(f, Response(405, {}))
    ELSE IF ~exists(f, get_parent(r.path)) THEN Out(f, Response(409, {}))
    ELSE IF r.clen # 0 THEN Out(f, Response(415, {}))
    ELSE IF ~r.acl["create"] THEN OutAfter(f, Response(403, {}), <<"access">>)
    ELSE LET m == mkdir(f, r.path)
         IN IF ~m.ok THEN OutAfter(m.fs, Raised, <<"access", "mkdir">>)
            ELSE OutAfter(m.fs, Response(201, {}), <<"access", "mkdir">>)

\* The run of copy or move that doCOPY starts once every check has passed
relocate(f, r, mv, order) ==
    LET depth == IF r.depth = "infinity" THEN -1 ELSE IF r.depth = "0" THEN 0 ELSE 1
    IN IF mv THEN move(delete(f, r.dest, order), r.path, r.dest, order)
       ELSE copy(f, r.path, r.dest, depth, order)

\* the calls doCOPY has made when the copy or move has run
relocate_calls(mv) ==
    IF mv THEN <<"access", "delete", "move">> ELSE <<"access", "copy">>

\* doCOPY testing the Overwrite header's text for truth, without the
\* conversion `overwrite = (overwrite == 'T')`: "F" is a true string
doCOPY_overwrite_text(f, r, mv, order) ==
    IF ~exists(f, r.path) THEN Out(f, Raised)
    ELSE IF ~r.acl["relocate"] THEN OutAfter(f, Response(403, {}), <<"access">>)
    ELSE IF ~r.has_dest THEN OutAfter(f, Response(400, {}), <<"access">>)
    ELSE IF ~r.same_host THEN OutAfter(f, Response(502, {}), <<"access">>)
    ELSE IF ~exists(f, get_parent(r.dest)) THEN OutAfter(f, Response(409, {}), <<"access">>)
    ELSE IF r.overwrite \notin {"T", "F"} THEN OutAfter(f, Response(400, {}), <<"access">>)
    ELSE IF r.depth \notin {"0", "1", "infinity"} THEN OutAfter(f, Response(400, {}), <<"access">>)
    ELSE IF mv /\ r.depth # "infinity" THEN OutAfter(f, Response(400, {}), <<"access">>)
    ELSE IF r.depth \notin {"0", "infinity"} THEN OutAfter(f, Response(400, {}), <<"access">>)
    ELSE LET dst_exists == exists(f, r.dest)
             run == relocate(f, r, mv, order)
         IN IF ~run.ok THEN OutAfter(run.fs, Raised, relocate_calls(mv))
            ELSE IF dst_exists THEN OutAfter(run.fs, Response(204, {}), relocate_calls(mv))
            ELSE OutAfter(run.fs, Response(201, {}), relocate_calls(mv))

\* doCOPY without the check `if move and depth != -1`
doCOPY_any_move_depth(f, r, mv, order) ==
    IF ~exists(f, r.path) THEN Out(f, Raised)
    ELSE IF ~r.acl["relocate"] THEN OutAfter(f, Response(403, {}), <<"access">>)
    ELSE IF ~r.has_dest THEN OutAfter(f, Response(400, {}), <<"access">>)
    ELSE IF ~r.same_host THEN OutAfter(f, Response(502, {}), <<"access">>)
    ELSE IF ~exists(f, get_parent(r.dest)) THEN OutAfter(f, Response(409, {}), <<"access">>)
    ELSE IF r.overwrite \notin {"T", "F"} THEN OutAfter(f, Response(400, {}), <<"access">>)
    ELSE IF r.overwrite = "F" /\ exists(f, r.dest) THEN OutAfter(f, Response(412, {}), <<"access">>)
    ELSE IF r.depth \notin {"0", "1", "infinity"} THEN OutAfter(f, Response(400, {}), <<"access">>)
    ELSE IF r.depth \notin {"0", "infinity"} THEN OutAfter(f, Response(400, {}), <<"access">>)
    ELSE LET dst_exists == exists(f, r.dest)
             run == relocate(f, r, mv, order)
         IN IF ~run.ok THEN OutAfter(run.fs, Raised, relocate_calls(mv))
            ELSE IF dst_exists THEN OutAfter(run.fs, Response(204, {}), relocate_calls(mv))
            ELSE OutAfter(run.fs, Response(201, {}), relocate_calls(mv))

\* doCOPY from `dst_exists = dst.exists()` on: the copy or move and the
\* response
doCOPY_write(f, r, mv, order) ==
    LET dst_exists == exists(f, r.dest)
        run == relocate(f, r, mv, order)
    IN IF ~run.ok THEN OutAfter(run.fs, Raised, relocate_calls(mv))
       ELSE IF dst_exists THEN OutAfter(run.fs, Response(204, {}), relocate_calls(mv))
       ELSE OutAfter(run.fs, Response(201, {}), relocate_calls(mv))

doCOPY(f, r, mv, order) ==
    IF ~exists(f, r.path) THEN Out(f, Raised)
    ELSE IF ~r.acl["relocate"] THEN OutAfter(f, Response(403, {}), <<"access">>)
    ELSE IF ~r.has_dest THEN OutAfter(f, Response(400, {}), <<"access">>)
    ELSE IF ~r.same_host THEN OutAfter(f, Response(502, {}), <<"access">>)
    ELSE IF ~exists(f, get_parent(r.dest)) THEN OutAfter(f, Response(409, {}), <<"access">>)
    ELSE IF r.overwrite \notin {"T", "F"} THEN OutAfter(f, Response(400, {}), <<"access">>)
    ELSE IF r.overwrite = "F" /\ exists(f, r.dest) THEN OutAfter(f, Response(412, {}), <<"access">>)
    ELSE IF r.depth \notin {"0", "1", "infinity"} THEN OutAfter(f, Response(400, {}), <<"access">>)
    ELSE IF mv /\ r.depth # "infinity" THEN OutAfter(f, Response(400, {}), <<"access">>)
    ELSE IF r.depth \notin {"0", "infinity"} THEN OutAfter(f, Response(400, {}), <<"access">>)
    ELSE doCOPY_write(f, r, mv, order)

\* every check of doCOPY before the copy or move has passed
Executes(f, r, mv) ==
    /\ exists(f, r.path)
    /\ r.acl["relocate"]
    /\ r.has_dest /\ r.same_host
    /\ exists(f, get_parent(r.dest))
    /\ r.overwrite \in {"T", "F"}
    /\ ~(r.overwrite = "F" /\ exists(f, r.dest))
    /\ r.depth \in {"0", "infinity"}
    /\ (mv => r.depth = "infinity")

doMOVE(f, r, order) == doCOPY(f, r, TRUE, order)

\* A PROPFIND body is the sequence of the child elements of its propfind
\* element, in document order; the children of a prop element are the
\* requested property names.
Selector(tag, props) == [tag |-> tag, props |-> props]

\* The selection the iterparse loop of doPROPFIND arrives at: bad when the
\* loop returned 400.  An element's event comes when it ends, so a prop
\* element is seen with its children.
Selection(props, names_only) == [bad |-> FALSE, props |-> props, names_only |-> names_only]
BadSelection == [bad |-> TRUE, props |-> <<>>, names_only |-> FALSE]
RECURSIVE iterparse(_, _, _)
iterparse(els, props, names_only) ==
    IF els = <<>> THEN Selection(props, names_only)
    ELSE LET el == Head(els)
         IN IF el.tag = DavTag("allprop")
            THEN (IF props # <<>> THEN BadSelection
                  ELSE iterparse(Tail(els), props, names_only))
            ELSE IF el.tag = DavTag("propname")
            THEN iterparse(Tail(els), props, TRUE)
            ELSE IF el.tag = DavTag("prop")
            THEN (IF names_only THEN BadSelection
                  ELSE iterparse(Tail(els), props \o el.props, names_only))
            ELSE iterparse(Tail(els), props, names_only)

\* What is written into a found property's element: a child element, a
\* text when the value is a non-empty string, and nothing otherwise
emitted(value) ==
    IF value.kind = "element" THEN value
    ELSE IF value.kind = "text" /\ value # Str("") THEN value
    ELSE None

\* one {DAV:}response element: href, the 200 propstat (found) and the 404
\* propstat (missing); an empty sequence is a propstat that is not written
response_element(f, p, props, names_only) ==
    LET got == get_properties(f, p, props, names_only)
    IN [href |-> get_url(p),
        found |-> [i \in 1..Len(got.found) |->
                      [name |-> got.found[i].name, value |-> emitted(got.found[i].value)]],
        missing |-> got.missing]

HttpResponseMultiStatus(ms) == [Response(207, {"Date"}) EXCEPT !.ms = ms]

\* doPROPFIND reading the Depth header before it asks the ACL provider
doPROPFIND_depth_first(f, r, order) ==
    IF ~exists(f, r.path) THEN Out(f, Response(404, {}))
    ELSE IF r.depth \notin {"0", "1", "infinity"}
         THEN OutAfter(f, Response(400, {}), <<"access">>)
    ELSE IF ~r.acl["list"] THEN OutAfter(f, Response(403, {}), <<"access">>)
    ELSE LET depth == IF r.depth = "infinity" THEN -1 ELSE IF r.depth = "0" THEN 0 ELSE 1
             sel == IF r.clen = 0 THEN Selection(DAV_LIVE_PROPERTIES, FALSE)
                    ELSE iterparse(r.xml, <<>>, FALSE)
             walk == get_descendants(f, r.path, depth, order)
         IN IF sel.bad THEN OutAfter(f, Response(400, {}), <<"access">>)
            ELSE IF ~walk.ok THEN OutAfter(f, Raised, <<"access">>)
            ELSE OutAfter(f,
                          HttpResponseMultiStatus(
                              [i \in 1..Len(walk.seq) |->
                                  response_element(f, walk.seq[i], sel.props, sel.names_only)]),
                          <<"access">>)

\* the selection of a request: every live property when there is no body
selected(r) ==
    IF r.clen = 0 THEN Selection(DAV_LIVE_PROPERTIES, FALSE)
    ELSE iterparse(r.xml, <<>>, FALSE)

\* get_etag, get_size, get_ctime_stamp and get_mtime_stamp ask the file
\* system and raise for a path that is not there: the selection has a
\* property whose value is read with one of them
reads_stat(sel) ==
    /\ ~sel.names_only
    /\ \E i \in DOMAIN sel.props :
          /\ ns_split(sel.props[i]).ns = <<"D", "A", "V">>
          /\ ns_split(sel.props[i]).name \in
                {"getetag", "getcontentlength", "creationdate", "getlastmodified"}

\* the loop of doPROPFIND over the resources its walk yields
respond(f, seq, sel) ==
    IF reads_stat(sel) /\ \E i \in DOMAIN seq : ~exists(f, seq[i]) THEN Raised
    ELSE HttpResponseMultiStatus(
             [i \in 1..Len(seq) |->
                 response_element(f, seq[i], sel.props, sel.names_only)])

doPROPFIND(f, r, order) ==
    IF ~exists(f, r.path) THEN Out(f, Response(404, {}))
    ELSE IF ~r.acl["list"] THEN OutAfter(f, Response(403, {}), <<"access">>)
    ELSE IF r.depth \notin {"0", "1", "infinity"}
         THEN OutAfter(f, Response(400, {}), <<"access">>)
    ELSE LET depth == IF r.depth = "infinity" THEN -1 ELSE IF r.depth = "0" THEN 0 ELSE 1
             sel == selected(r)
             walk == get_descendants(f, r.path, depth, order)
         IN IF sel.bad THEN OutAfter(f, Response(400, {}), <<"access">>)
            ELSE IF ~walk.ok THEN OutAfter(f, Raised, <<"access">>)
            ELSE OutAfter(f, respond(f, walk.seq, sel), <<"access">>)

\* doPROPFIND from the second resource of its walk on, when the resource
\* itself has been answered (ms) and its children have been listed: each
\* listed child is walked with depth - 1 and answered
doPROPFIND_children(f, r, ms, listed, order) ==
    LET depth == IF r.depth = "infinity" THEN -1 ELSE IF r.depth = "0" THEN 0 ELSE 1
        walk == descendantsEach(f, listed, depth - 1, order)
        rest == respond(f, walk.seq, selected(r))
    IN IF ~walk.ok \/ rest.raised THEN OutAfter(f, Raised, <<"access">>)
       ELSE OutAfter(f, [rest EXCEPT !.ms = ms \o @], <<"access">>)

\* the entity headers doGET sets when the resource exists
EntityHeaders == {"Content-Type", "Content-Length", "Last-Modified", "ETag"}

\* doGET(head): res.open('r') raises when there is no such file
doGET(f, r, head) ==
    IF ~head /\ isdir(f, r.path)
    THEN (IF ~r.acl["list"] THEN OutAfter(f, Response(403, {}), <<"access">>)
          ELSE OutAfter(f, Response(200, {}), <<"access">>))
    ELSE IF ~r.acl["read"] THEN OutAfter(f, Response(403, {}), <<"access">>)
    ELSE IF head /\ exists(f, r.path)
         THEN OutAfter(f, Response(200, EntityHeaders \cup {"Date"}), <<"access">>)
    ELSE IF head THEN OutAfter(f, Response(404, {"Date"}), <<"access">>)
    ELSE IF ~exists(f, r.path) THEN OutAfter(f, Raised, <<"access">>)
    ELSE OutAfter(f, Response(200, EntityHeaders \cup {"Date"}), <<"access">>)

doHEAD(f, r) == doGET(f, r, TRUE)

doPOST(f, r) == Out(f, Response(405, {}))

doLOCK(f, r) == Out(f, Response(501, {}))

doUNLOCK(f, r) == Out(f, Response(501, {}))

\* doOPTIONS: the DAV header (its value is always '1,2') and Date are set
\* on the response built first; the 404 is a response of its own
doOPTIONS(f, r) ==
    IF r.raw \in {"/", "*"} THEN Out(f, Response(200, {"DAV", "Date"}))
    ELSE IF ~exists(f, r.path)
         THEN (IF ~isdir(f, get_parent(r.path))
               THEN OutAfter(f, Response(404, {}), <<"access">>)
               ELSE OutAfter(f, Response(200, {"DAV", "Date", "Allow"}), <<"access">>))
    ELSE IF isdir(f, r.path)
         THEN OutAfter(f, Response(200, {"DAV", "Date", "Allow"}), <<"access">>)
    ELSE OutAfter(f, Response(200, {"DAV", "Date", "Allow", "Allow-Ranges"}), <<"access">>)

doPROPPATCH(f, r) == Out(f, Response(501, {}))

\* get_response: the handler named 'do' + method, or 404 when there is none
get_response(f, r, order) ==
    IF r.method = "GET" THEN doGET(f, r, FALSE)
    ELSE IF r.method = "HEAD" THEN doHEAD(f, r)
    ELSE IF r.method = "POST" THEN doPOST(f, r)
    ELSE IF r.method = "PUT" THEN doPUT(f, r)
    ELSE IF r.method = "DELETE" THEN doDELETE(f, r, order)
    ELSE IF r.method = "MKCOL" THEN doMKCOL(f, r)
    ELSE IF r.method = "COPY" THEN doCOPY(f, r, FALSE, order)
    ELSE IF r.method = "MOVE" THEN doMOVE(f, r, order)
    ELSE IF r.method = "LOCK" THEN doLOCK(f, r)
    ELSE IF r.method = "UNLOCK" THEN doUNLOCK(f, r)
    ELSE IF r.method = "OPTIONS" THEN doOPTIONS(f, r)
    ELSE IF r.method = "PROPFIND" THEN doPROPFIND(f, r, order)
    ELSE IF r.method = "PROPPATCH" THEN doPROPPATCH(f, r)
    ELSE Out(f, Response(404, {}))

\* ------------------------------------------------------------------ state
\* now is the clock, in ticks finer than the text of a time stamp
\* joined is one call of a path utility: its arguments and its result;
\* inflight is the request a second worker is in the middle of
VARIABLES fs, pre, req, resp, calls, now, joined, inflight
vars == <<fs, pre, req, resp, calls, now, joined, inflight>>

\* no request is being handled
NoRequest == Request("NONE", Root, FullAcl)
NoResponse == Response(0, {})
Idle == req = NoRequest

Call(op, root, paths) ==
    [op |-> op, root |-> root, paths |-> paths, result |-> <<>>, done |-> FALSE]
NoCall == Call("", <<>>, <<>>)

\* The second worker's request between two of its steps: a COPY or MOVE
\* whose checks have passed, or a PROPFIND that has answered its resource
\* (ms) and listed its children
NoFlight == [stage |-> "none", r |-> NoRequest, ms |-> <<>>, listed |-> <<>>]

\* the export root exists and is empty; no request has been handled
InitTree ==
    /\ fs = [p \in Paths |-> IF p = Root THEN Dir ELSE Absent]
    /\ pre = fs
    /\ req = NoRequest
    /\ resp = NoResponse
    /\ calls = <<>>
    /\ now = 0
    /\ inflight = NoFlight
Init == InitTree /\ joined = NoCall

\* the number of resources below the root
NodeCount(f) == Cardinality({p \in Paths : p # Root /\ f[p].kind # "absent"})

\* The nodes a request has written: those whose kind or content changed,
\* the file it wrote, and the directories that gained or lost an entry
Touched(f, out, path) ==
    {p \in Paths : out.fs[p].kind # f[p].kind \/ out.fs[p].data # f[p].data}
    \cup {p \in {path} : InSeq("write", out.calls) /\ InTree(p) /\ isfile(out.fs, p)}
    \cup {get_parent(p) : p \in {q \in Paths : q # Root /\ exists(out.fs, q) # exists(f, q)}}
\* the tree with the modification time of every written node set to t
Stamped(f, out, path, t) ==
    IF out.fs = f /\ ~InSeq("write", out.calls) THEN f
    ELSE LET touched == Touched(f, out, path)
         IN [p \in Paths |->
                IF exists(out.fs, p) /\ p \in touched
                THEN [out.fs[p] EXCEPT !.mtime = t]
                ELSE out.fs[p]]

\* One request, from dispatch to the handler's return: pre keeps the tree
\* the handler found, req the request and resp what the handler returned.
\* A request that would leave more than MaxNodes resources is left out.
Answered(r, out) ==
    \E done \in {out} :
        /\ NodeCount(done.fs) <= MaxNodes
        /\ pre' = fs
        /\ req' = r
        /\ fs' = Stamped(fs, done, r.path, now)
        /\ resp' = done.resp
        /\ calls' = done.calls
        /\ UNCHANGED <<now, joined>>
Handled(r, out) == Answered(r, out) /\ UNCHANGED inflight

\* The view returns the response; the per-request server object is dropped.
export ==
    /\ ~Idle
    /\ pre' = fs
    /\ req' = NoRequest
    /\ resp' = NoResponse
    /\ calls' = <<>>
    /\ UNCHANGED <<fs, now, joined, inflight>>

\* time passes between two requests
tick ==
    /\ Idle
    /\ now < MaxTime
    /\ now' = now + 1
    /\ UNCHANGED <<fs, pre, req, resp, calls, joined, inflight>>

PutRequestsOf(bodies) ==
    {[Request("PUT", p, a) EXCEPT !.body = b] : p \in Paths, a \in Acls, b \in bodies}
PutRequests == PutRequestsOf(Contents)
DeleteRequests == {Request("DELETE", p, a) : p \in Paths, a \in Acls}
MkcolRequests ==
    {[Request("MKCOL", p, a) EXCEPT !.clen = n] : p \in Paths, a \in Acls, n \in {0, 1}}
\* Destination, Overwrite and Depth headers: every legal combination, and
\* each illegal value on its own
RelocateHeaders ==
    {[has_dest |-> TRUE, same_host |-> TRUE, dest |-> d, overwrite |-> o, depth |-> k] :
        d \in Paths, o \in {"T", "F"}, k \in {"0", "1", "infinity"}}
    \cup {[has_dest |-> FALSE, same_host |-> TRUE, dest |-> Root, overwrite |-> "T", depth |-> "infinity"],
          [has_dest |-> TRUE, same_host |-> FALSE, dest |-> Root, overwrite |-> "T", depth |-> "infinity"]}
    \cup {[has_dest |-> TRUE, same_host |-> TRUE, dest |-> d, overwrite |-> "X", depth |-> "infinity"] : d \in Paths}
    \cup {[has_dest |-> TRUE, same_host |-> TRUE, dest |-> d, overwrite |-> "T", depth |-> "2"] : d \in Paths}
RelocateRequests(method) ==
    {[Request(method, p, a) EXCEPT !.has_dest = h.has_dest, !.same_host = h.same_host,
         !.dest = h.dest, !.overwrite = h.overwrite, !.depth = h.depth] :
        p \in Paths, a \in Acls, h \in RelocateHeaders}

\* PROPFIND bodies: each selector alone and the pairs of selectors in both
\* orders; the prop element asks for a live property, a dead one and two
\* names close to the live ones
DeadTag == Tag(<<"u", ":">>, "author")
\* a name of the DAV namespace that is no live property, and the name of a
\* live property in a namespace that differs from "DAV:" in its last character
HrefTag == DavTag("href")
NearDavTag == Tag(<<"D", "A", "V", "x">>, "getetag")
AskedProps == <<DavTag("getetag"), DeadTag, HrefTag, NearDavTag>>
Bodies ==
    LET allprop == Selector(DavTag("allprop"), <<>>)
        propname == Selector(DavTag("propname"), <<>>)
        prop == Selector(DavTag("prop"), AskedProps)
    IN {<<allprop>>, <<propname>>, <<prop>>,
        <<prop, propname>>, <<propname, prop>>,
        <<allprop, prop>>, <<prop, allprop>>}
PropfindRequests ==
    {[Request("PROPFIND", p, FullAcl) EXCEPT !.depth = k] :
        p \in Paths, k \in {"0", "1", "infinity", "2"}}
    \cup {[Request("PROPFIND", p, FullAcl) EXCEPT !.depth = k, !.clen = 1, !.xml = b] :
        p \in Paths, k \in {"0", "1", "infinity"}, b \in Bodies}
    \cup {[Request("PROPFIND", p, NoListAcl) EXCEPT !.depth = k] :
        p \in Paths, k \in {"1", "2"}}

ReadRequests(method) ==
    {Request(method, p, a) : p \in Paths, a \in Acls \cup {NoListAcl, NoReadAcl}}
OptionsRequests ==
    {Request("OPTIONS", p, FullAcl) : p \in Paths}
    \cup {[Request("OPTIONS", Root, FullAcl) EXCEPT !.raw = t] : t \in {"/", "*"}}
\* methods whose handlers look at nothing, and methods without a handler
StubMethods == {"POST", "LOCK", "UNLOCK", "PROPPATCH"}
UnknownMethods == {"TRACE", "REPORT"}
PlainRequests(methods) == {Request(m, p, FullAcl) : m \in methods, p \in Paths}

\* dst lies strictly inside the subtree of src
Nested(src, dst) == Len(dst) > Len(src) /\ SubSeq(dst, 1, Len(src)) = src

\* A copy or move is left out when it would need a path deeper than the
\* model's tree, unless the destination lies inside the source, where the
\* walk feeds on its own output whatever the depth.
Fits(f, r, mv, order) ==
    Executes(f, r, mv) => (relocate(f, r, mv, order).deep => Nested(r.path, r.dest))

PUT == Idle /\ \E r \in PutRequests : Handled(r, doPUT(fs, r))
DELETE == Idle /\ \E r \in DeleteRequests, order \in Orders : Handled(r, doDELETE(fs, r, order))
MKCOL == Idle /\ \E r \in MkcolRequests : Handled(r, doMKCOL(fs, r))
COPY ==
    Idle /\ \E r \in RelocateRequests("COPY"), order \in Orders :
        /\ Fits(fs, r, FALSE, order)
        /\ Handled(r, doCOPY(fs, r, FALSE, order))
MOVE ==
    Idle /\ \E r \in RelocateRequests("MOVE"), order \in Orders :
        /\ Fits(fs, r, TRUE, order)
        /\ Handled(r, doMOVE(fs, r, order))

PROPFIND ==
    Idle /\ \E r \in PropfindRequests, order \in Orders :
        Handled(r, doPROPFIND(fs, r, order))

GET == Idle /\ \E r \in ReadRequests("GET") : Handled(r, doGET(fs, r, FALSE))
HEAD == Idle /\ \E r \in ReadRequests("HEAD") : Handled(r, doHEAD(fs, r))
OPTIONS == Idle /\ \E r \in OptionsRequests : Handled(r, doOPTIONS(fs, r))
\* POST, LOCK, UNLOCK and PROPPATCH, dispatched by get_response
STUB ==
    Idle /\ \E r \in PlainRequests(StubMethods), order \in Orders :
        Handled(r, get_response(fs, r, order))
\* a method the server has no handler for
UNKNOWN ==
    Idle /\ \E r \in PlainRequests(UnknownMethods), order \in Orders :
        Handled(r, get_response(fs, r, order))

Next ==
    \/ PUT \/ DELETE \/ MKCOL \/ COPY \/ MOVE \/ PROPFIND
    \/ GET \/ HEAD \/ OPTIONS \/ STUB \/ UNKNOWN
    \/ export
\* every request handled within one tick of the clock
Spec == Init /\ [][Next]_vars

\* Requests on the files directly below the root while the clock runs; the
\* bodies include two different ones of the same length
PUT_timed ==
    Idle /\ \E r \in PutRequestsOf(Contents \cup {"y"}) :
        Len(r.path) <= 1 /\ Handled(r, doPUT(fs, r))
ClockNext == PUT_timed \/ DELETE \/ HEAD \/ tick \/ export
ClockSpec == Init /\ [][ClockNext]_vars

\* Two workers on one export.  The first handles PUT, MKCOL and DELETE
\* requests, each in one step.  The second handles a COPY or MOVE in two
\* steps, its checks and then its writes, or a PROPFIND in two steps, the
\* resource itself with the listing of its children and then the children;
\* the first worker's requests run in between.
WorkerRequests ==
    {r \in PutRequests \cup MkcolRequests \cup DeleteRequests : r.acl = FullAcl /\ r.clen = 0}
InflightRelocations ==
    {r \in RelocateRequests("COPY") \cup RelocateRequests("MOVE") :
        /\ r.acl = FullAcl
        /\ r.overwrite \in {"T", "F"}
        /\ r.depth = "infinity"}
InflightPropfinds ==
    {r \in PropfindRequests : r.acl = FullAcl /\ r.clen = 0 /\ r.depth \in {"1", "infinity"}}
Between(flight) == UNCHANGED <<fs, pre, req, resp, calls, now, joined>> /\ inflight' = flight

worker ==
    Idle /\ \E r \in WorkerRequests, order \in Orders :
        Handled(r, get_response(fs, r, order))
\* doCOPY up to the depth checks: every check passes
relocate_check ==
    /\ Idle
    /\ inflight = NoFlight
    /\ \E r \in InflightRelocations :
          /\ Executes(fs, r, r.method = "MOVE")
          /\ Between([NoFlight EXCEPT !.stage = "checked", !.r = r])
\* doCOPY from `dst_exists = dst.exists()` on, on the tree as it is now
relocate_run ==
    /\ Idle
    /\ inflight.stage = "checked"
    /\ \E order \in Orders :
          LET r == inflight.r
              mv == r.method = "MOVE"
          IN /\ relocate(fs, r, mv, order).deep => Nested(r.path, r.dest)
             /\ Answered(r, doCOPY_write(fs, r, mv, order))
             /\ inflight' = NoFlight
\* doPROPFIND up to the os.listdir of the resource: the checks pass, the
\* resource itself is answered and its children are listed
propfind_list ==
    /\ Idle
    /\ inflight = NoFlight
    /\ \E r \in InflightPropfinds, order \in Orders :
          /\ isdir(fs, r.path)
          /\ doPROPFIND(fs, r, order).resp.status = 207
          /\ Between([NoFlight EXCEPT
                        !.stage = "listed", !.r = r,
                        !.ms = respond(fs, <<r.path>>, selected(r)).ms,
                        !.listed = get_children(fs, r.path, order)])
\* the rest of the walk, on the tree as it is now
propfind_read ==
    /\ Idle
    /\ inflight.stage = "listed"
    /\ \E order \in Orders :
          /\ Answered(inflight.r,
                      doPROPFIND_children(fs, inflight.r, inflight.ms, inflight.listed, order))
          /\ inflight' = NoFlight
ConcNext == worker \/ relocate_check \/ relocate_run \/ propfind_list \/ propfind_read \/ export
ConcSpec == Init /\ [][ConcNext]_vars

\* The path utilities on their own: a root text and up to two path texts,
\* then one call.  DavRoot is the configured root of the export.
DavRoot == <<"/", "a">>
PathLists == {<<>>} \cup {<<s>> : s \in Strings} \cup {<<s, t>> : s, t \in Strings}
JoinInit ==
    /\ InitTree
    /\ joined \in {Call("safe_join", root, paths) : root \in Strings, paths \in PathLists}
               \cup {Call("get_abs_path", DavRoot, <<path>>) : path \in Strings}
               \cup {Call("destination", DavRoot, <<url_path, base>>) :
                        url_path \in Strings, base \in Strings}
Returned(result) ==
    /\ ~joined.done
    /\ joined' = [joined EXCEPT !.result = result, !.done = TRUE]
    /\ UNCHANGED <<fs, pre, req, resp, calls, now, inflight>>
join ==
    /\ joined.op = "safe_join"
    /\ Returned(safe_join(joined.root, joined.paths))
abs_path ==
    /\ joined.op = "get_abs_path"
    /\ Returned(get_abs_path(joined.root, joined.paths[1]))
\* the absolute path of the resource doCOPY makes of the Destination header
destination ==
    /\ joined.op = "destination"
    /\ Returned(get_abs_path(joined.root,
                              destination_path(joined.paths[1], joined.paths[2])))
JoinNext == join \/ abs_path \/ destination
JoinSpec == JoinInit /\ [][JoinNext]_vars

\* ================================================================ claims
\* q is p or lies below p
Under(p, q) == Len(p) <= Len(q) /\ SubSeq(q, 1, Len(p)) = p
\* the path below d that corresponds to q below s
Rebase(s, d, q) == d \o SubSeq(q, Len(s) + 1, Len(q))
Mutating == {"PUT", "DELETE", "MKCOL", "COPY", "MOVE"}
Relocating == {"COPY", "MOVE"}

\* C1: the ACL of the default provider grants list and read only, so under
\* it every PUT, DELETE, MKCOL, COPY and MOVE is refused and leaves the tree
\* as it was.
C1_DefaultAclReadOnly ==
    (req.method \in Mutating /\ req.acl = get_access) =>
        /\ \A k \in Perms : req.acl[k] = (k \in {"list", "read"})
        /\ fs = pre
        /\ resp.status \notin {201, 204}

C4_Delete ==
    (req.method = "DELETE" /\ req.acl["delete"]) =>
        IF exists(pre, req.path)
        THEN /\ resp.status = 204
             /\ \A q \in Paths : fs[q] = (IF Under(req.path, q) THEN Absent ELSE pre[q])
             /\ \A order \in Orders :
                    /\ doDELETE(fs, req, order).resp.status = 404
                    /\ doDELETE(fs, req, order).fs = fs
        ELSE resp.status = 404 /\ fs = pre

\* a DELETE removed a collection that had a member, beside another resource
C4_Witness ==
    /\ req.method = "DELETE" /\ req.acl["delete"] /\ resp.status = 204
    /\ \E q \in Paths : q # req.path /\ Under(req.path, q) /\ exists(pre, q)
    /\ \E q \in Paths : ~Under(req.path, q) /\ q # Root /\ exists(fs, q)

\* C5: a COPY or MOVE of an absent source answers 404 and leaves the tree
\* unchanged, whatever its headers.
C5_SourceAbsent404 ==
    (req.method \in Relocating /\ ~exists(pre, req.path))
        => (resp.status = 404 /\ fs = pre)

\* C6: a COPY or MOVE that passes the checks before the Overwrite header
\* (source exists, relocate granted, Destination given on the same host),
\* carries Overwrite F and names an existing destination answers 412 and
\* leaves the whole tree, source and destination included, unchanged.
C6_OverwriteF412 ==
    (/\ req.method \in Relocating
     /\ exists(pre, req.path) /\ req.acl["relocate"]
     /\ req.has_dest /\ req.same_host
     /\ req.overwrite = "F" /\ exists(pre, req.dest))
        => (resp.status = 412 /\ fs = pre)

\* a MOVE with Overwrite F onto an existing, different resource was refused
C6_Witness ==
    /\ req.method = "MOVE" /\ req.overwrite = "F"
    /\ exists(pre, req.path) /\ exists(pre, req.dest) /\ req.dest # req.path
    /\ resp.status = 412

\* C7: after a COPY answered 201 or 204 the source subtree is as it was,
\* and the destination of a non-collection source is a non-collection with
\* the source's content.
C7_CopyKeepsSource ==
    (req.method = "COPY" /\ resp.status \in {201, 204}) =>
        /\ \A q \in Paths : Under(req.path, q) => fs[q] = pre[q]
        /\ isfile(pre, req.path) => fs[req.dest] = pre[req.path]

\* C8: after a MOVE that passed every check the source path is absent and
\* the destination holds the source's former subtree, nothing more and
\* nothing less.
C8_MoveRelocates ==
    (req.method = "MOVE" /\ Executes(pre, req, TRUE)) =>
        /\ ~exists(fs, req.path)
        /\ \A q \in Paths : Under(req.path, q) =>
               /\ InTree(Rebase(req.path, req.dest, q))
               /\ fs[Rebase(req.path, req.dest, q)] = pre[q]
        /\ \A t \in Paths : (Under(req.dest, t) /\ exists(fs, t)) =>
               /\ InTree(Rebase(req.dest, req.path, t))
               /\ pre[Rebase(req.dest, req.path, t)] = fs[t]

\* C9: after a COPY with Overwrite T and Depth infinity onto an existing
\* destination answered 204, the destination's subtree has exactly the
\* structure of the source's subtree.
C9_CopyReplaces ==
    (/\ req.method = "COPY" /\ req.overwrite = "T" /\ req.depth = "infinity"
     /\ exists(pre, req.dest) /\ resp.status = 204) =>
        \A t \in Paths : Under(req.dest, t) =>
            kind(fs, t) = kind(pre, Rebase(req.dest, req.path, t))

\* the run of the last COPY or MOVE raised while handling a child
ChildError ==
    /\ resp.raised
    /\ \E order \in Orders :
          LET run == relocate(pre, req, req.method = "MOVE", order)
          IN ~run.ok /\ run.child /\ run.fs = fs

\* C10: an executed COPY or MOVE answers 207 when an error occurred at a
\* child, else 204 when the destination existed before, else 201.
C10_RelocateStatus ==
    (req.method \in Relocating /\ Executes(pre, req, req.method = "MOVE")) =>
        resp.status = (IF ChildError THEN 207
                       ELSE IF exists(pre, req.dest) THEN 204 ELSE 201)

\* the request was refused and the tree is as the handler found it
Refused403 == resp.status = 403 /\ ~resp.raised /\ fs = pre

\* the checks on the target and its parent that come before the ACL check
\* of each handler, and the permission the handler asks for
ExistenceChecked ==
    \/ req.method = "PUT" /\ ~isdir(pre, req.path) /\ exists(pre, get_parent(req.path))
    \/ req.method = "MKCOL" /\ ~exists(pre, req.path) /\ exists(pre, get_parent(req.path))
    \/ req.method \in {"DELETE", "COPY", "MOVE", "PROPFIND"} /\ exists(pre, req.path)
Needed(method) ==
    IF method = "PUT" THEN "write"
    ELSE IF method = "DELETE" THEN "delete"
    ELSE IF method = "MKCOL" THEN "create"
    ELSE IF method = "PROPFIND" THEN "list"
    ELSE "relocate"

\* C11 as stated: a PUT, DELETE, MKCOL, COPY, MOVE or PROPFIND that passes
\* the handler's existence checks and is denied the handler's permission is
\* answered 403 and leaves the tree unchanged.
C11_AclDenial_Original ==
    (ExistenceChecked /\ ~req.acl[Needed(req.method)]) => Refused403

\* C11: a PUT, DELETE, MKCOL, COPY, MOVE or PROPFIND that passes the
\* handler's existence checks, and for MKCOL carries no body, and is denied
\* the handler's permission is answered 403 and leaves the tree unchanged;
\* a denied MKCOL with a body is answered 415.
C11_AclDenial ==
    /\ (ExistenceChecked /\ ~req.acl[Needed(req.method)]
            /\ ~(req.method = "MKCOL" /\ req.clen # 0))
        => Refused403
    /\ (ExistenceChecked /\ req.method = "MKCOL" /\ req.clen # 0)
        => (resp.status = 415 /\ fs = pre)
C11_Witness ==
    /\ req.method = "PROPFIND" /\ req.depth = "2"
    /\ exists(pre, req.path) /\ ~req.acl["list"]
    /\ resp.status = 403

\* a PROPFIND of an existing target that is granted list and carries a
\* valid Depth header
Listable ==
    /\ req.method = "PROPFIND" /\ exists(pre, req.path) /\ req.acl["list"]
    /\ req.depth \in {"0", "1", "infinity"}
HasSelector(local) == \E i \in DOMAIN req.xml : req.xml[i].tag = DavTag(local)
\* the body holds prop with propname, or allprop with prop
IllegalBody ==
    /\ req.clen # 0
    /\ \/ HasSelector("prop") /\ HasSelector("propname")
       \/ HasSelector("allprop") /\ HasSelector("prop")
ChildrenOf(f, p) == {n \in Names : exists(f, child_path(p, n))}
SubtreeOf(f, p) == {q \in Paths : Under(p, q) /\ exists(f, q)}
\* the paths of the response elements, in the order of the multistatus
Hrefs == [i \in DOMAIN resp.ms |-> resp.ms[i].href.path]

\* C12: a PROPFIND of an existing collection or non-collection with list
\* permission and a legal body is answered 207 with exactly one response
\* element under Depth 0, and 207 with one element more than the target
\* has direct children under Depth 1.
C12_DepthBounds ==
    (Listable /\ ~IllegalBody) =>
        /\ req.depth = "0" => (resp.status = 207 /\ Len(resp.ms) = 1)
        /\ req.depth = "1" =>
              /\ resp.status = 207
              /\ Len(resp.ms) = 1 + Cardinality(ChildrenOf(pre, req.path))

\* C13: under Depth infinity a PROPFIND of an existing target with list
\* permission and a legal body is answered 207, and its response elements
\* are the resources of the target's subtree, each once, the target first,
\* in pre-order (no resource before its ancestor, every subtree in one run).
C13_InfinityPreOrder ==
    (Listable /\ ~IllegalBody /\ req.depth = "infinity") =>
        /\ resp.status = 207
        /\ Len(Hrefs) = Cardinality(SubtreeOf(pre, req.path))
        /\ {Hrefs[i] : i \in DOMAIN Hrefs} = SubtreeOf(pre, req.path)
        /\ Hrefs[1] = req.path
        /\ \A i, j \in DOMAIN Hrefs : i < j => ~Under(Hrefs[j], Hrefs[i])
        /\ \A i, j, k \in DOMAIN Hrefs :
              (i < j /\ j < k /\ Under(Hrefs[i], Hrefs[k])) => Under(Hrefs[i], Hrefs[j])

\* C14: a PROPFIND whose body is the allprop selector gets the response a
\* PROPFIND with an empty body gets for the same target, Depth and tree:
\* every response element lists the live properties as found.
C14_AllpropAsEmptyBody ==
    (Listable /\ req.clen # 0 /\ req.xml = <<Selector(DavTag("allprop"), <<>>)>>) =>
        \E order \in Orders :
            resp = doPROPFIND(pre, [req EXCEPT !.clen = 0, !.xml = <<>>], order).resp

\* C15: in the 207 response of a PROPFIND whose body is the propname
\* selector, every response element lists the six live property names as
\* found, each without a value.
C15_Propname ==
    (Listable /\ req.clen # 0 /\ req.xml = <<Selector(DavTag("propname"), <<>>)>>
        /\ resp.status = 207) =>
        \A i \in DOMAIN resp.ms :
            LET found == resp.ms[i].found
            IN /\ [k \in DOMAIN found |-> found[k].name] = DAV_LIVE_PROPERTIES
               /\ \A k \in DOMAIN found : found[k].value = None

\* C16: a PROPFIND of an existing target with list permission whose body
\* holds prop and propname, or allprop and prop, in either order, is
\* answered 400.
C16_IllegalSelectors ==
    (Listable /\ IllegalBody) => resp.status = 400

\* C17: every request ends in a response, and its status is one of 200,
\* 201, 204, 207, 400, 403, 404, 405, 409, 412, 415, 501 and 502.
C17_StatusSet ==
    ~Idle =>
        /\ ~resp.raised
        /\ resp.status \in {200, 201, 204, 207, 400, 403, 404, 405, 409, 412, 415, 501, 502}

\* C18: every response to an OPTIONS request carries the DAV header.
C18_OptionsDav ==
    req.method = "OPTIONS" => (~resp.raised /\ "DAV" \in resp.hdrs)

\* a MOVE with Depth 0 or 1, or a COPY with Depth 1, that passes the checks
\* on the source, the permission and the Destination header
PartialDepth ==
    /\ \/ req.method = "MOVE" /\ req.depth \in {"0", "1"}
       \/ req.method = "COPY" /\ req.depth = "1"
    /\ exists(pre, req.path) /\ req.acl["relocate"]
    /\ req.has_dest /\ req.same_host

AccessCalls == Cardinality({i \in DOMAIN calls : calls[i] = "access"})
\* every mutating backend call comes after a call of access
AccessFirst ==
    \A i \in DOMAIN calls :
        calls[i] # "access" => \E j \in 1..(i - 1) : calls[j] = "access"

\* C20 as stated: every request calls access exactly once, before every
\* mutating backend operation.
C20_AccessOnce_Original ==
    ~Idle => (AccessCalls = 1 /\ AccessFirst)

\* C20: every request calls access at most once; a request that reaches a
\* mutating backend operation (write, mkdir, delete, copy, move) has called
\* access exactly once, before the first of them.
C20_AccessOnce ==
    /\ AccessCalls <= 1
    /\ AccessFirst
    /\ (\E i \in DOMAIN calls : calls[i] # "access") => AccessCalls = 1
C20_Witness ==
    /\ req.method = "PUT" /\ resp.status = 201
    /\ calls = <<"access", "write">>

\* C21: every response carries a Date header, whatever the method and the
\* status.
C21_DateEverywhere ==
    (~Idle /\ ~resp.raised) => "Date" \in resp.hdrs

\* the names a sequence of found (name, value) pairs lists
NamesOf(found) == {found[k].name : k \in DOMAIN found}
SetOf(seq) == {seq[k] : k \in DOMAIN seq}

\* C29: in the 207 response of a PROPFIND whose body is one prop element,
\* every response element puts each requested name in exactly one of found
\* and missing, and a name is found only if it is one of the six live
\* properties.
C29_FoundOrMissing ==
    (Listable /\ req.clen # 0 /\ Len(req.xml) = 1 /\ HasSelector("prop")
        /\ resp.status = 207) =>
        \A i \in DOMAIN resp.ms :
            LET found == NamesOf(resp.ms[i].found)
                missing == SetOf(resp.ms[i].missing)
            IN /\ found \cup missing = SetOf(req.xml[1].props)
               /\ found \cap missing = {}
               /\ found \subseteq SetOf(DAV_LIVE_PROPERTIES)

\* C30: in a 207 response of PROPFIND no response element of a collection
\* lists {DAV:}getcontentlength as found.
C30_SizeOnlyForFiles ==
    (req.method = "PROPFIND" /\ resp.status = 207) =>
        \A i \in DOMAIN resp.ms :
            isdir(pre, resp.ms[i].href.path) =>
                DavTag("getcontentlength") \notin NamesOf(resp.ms[i].found)

C27_RelocateEnds ==
    (req.method \in Relocating /\ Executes(pre, req, req.method = "MOVE")) =>
        \A order \in Orders : ~relocate(pre, req, req.method = "MOVE", order).deep

\* C22: the ETag of a resource is the same in two trees where its path,
\* modification time and size are the same, and after a PUT that replaces
\* the content of an existing non-collection by a different one the ETag of
\* the resource differs from its ETag before the PUT.
C22_EtagSensitivity ==
    /\ \A p \in Paths :
          (exists(fs, p) /\ exists(pre, p) /\ fs[p].mtime = pre[p].mtime
              /\ get_size(fs, p) = get_size(pre, p))
          => get_etag(fs, p) = get_etag(pre, p)
    /\ (req.method = "PUT" /\ resp.status = 204 /\ isfile(pre, req.path)
            /\ pre[req.path].data # req.body)
        => get_etag(fs, req.path) # get_etag(pre, req.path)

\* C23: whatever the root and the paths, the result of safe_join starts
\* with "/" and holds no two "/" in a row.
C23_SafeJoin ==
    (joined.done /\ joined.op = "safe_join") =>
        /\ startswith(joined.result, "/")
        /\ \A i \in 1..(Len(joined.result) - 1) :
              ~(joined.result[i] = "/" /\ joined.result[i + 1] = "/")

\* C26: the absolute path of every resource, made from a request path or
\* from a Destination header, names a place inside the configured root.
C26_Containment ==
    (joined.done /\ joined.op \in {"get_abs_path", "destination"}) =>
        Under(realpath(joined.root), realpath(joined.result))

\* C24: under two workers, a COPY or MOVE sent with Overwrite F leaves a
\* destination that another request created after the handler's existence
\* check as that request made it: the resource and all below it.
C24_OverwriteFRace ==
    (req.method \in Relocating /\ req.overwrite = "F" /\ exists(pre, req.dest)) =>
        \A p \in Paths :
            Under(req.dest, p) => (fs[p].kind = pre[p].kind /\ fs[p].data = pre[p].data)

\* C25: under two workers, a PROPFIND whose traversal would answer 207 on
\* the tree as it is answers 207 although a request created or deleted a
\* resource of the subtree after the children were listed.
C25_PropfindRace ==
    (req.method = "PROPFIND"
       /\ \A order \in Orders : doPROPFIND(pre, req, order).resp.status = 207) =>
        resp.status = 207
====
